---- MODULE Spec2Model ----
(***************************************************************************)
(* Model of the ozon-sku rank checker: the outer scan loop of main(), the  *)
(* scan find_sku_position(), and the write pipeline (asyncio.Queue plus    *)
(* the sheets_writer consumer task).                                       *)
(*                                                                         *)
(* The two coroutines are interleaved at their await points; the code      *)
(* between two awaits of one coroutine is one action.                      *)
(***************************************************************************)
EXTENDS Integers, Sequences, FiniteSets, TLC

\* ------------------------------------------------------------------ bounds

\* Number of data rows of the sheet (article rows and query rows).
MaxRows == 3
\* Longest list of hrefs one DOM query returns.
MaxSnapLen == 2

\* --------------------------------------------------------- program constants

\* find_sku_position(max_items=1000), scaled down.
max_items == 2
\* find_sku_position(stale_threshold=5), scaled down.
stale_threshold == 2
\* main(): max_retries = 3.
max_retries == 3
\* main(): is_found = position < 1000; the literal equals max_items in the
\* source and is scaled with it.
found_limit == 2

\* The distinct product ids the feed can show: one more than max_items, so a
\* snapshot can carry an id beyond the ceiling.
Ids == 1..(max_items + 1)

\* Python's None.
None == [type |-> "NoneType"]

\* extract_sku's "no match".
NoSku == 0

\* ------------------------------------------------------------------- feed

\* A product link: /<seg>/<slug>-<digits>/ .  One product link per id and one
\* link SKU_PATTERN does not match.
HREFS ==
    [seg : {"product"}, slug : {"a"}, digits : Ids]
    \cup {[seg |-> "category", slug |-> "a", digits |-> 1]}

\* What get_product_hrefs can return: any list of hrefs, duplicates and
\* reorderings included.
Snapshots == UNION {[1..n -> HREFS] : n \in 0..MaxSnapLen}

\* SKU_PATTERN = /product/[^/]+-(\d+)/ ; extract_sku returns group 1 or None.
extract_sku(href) ==
    IF href.seg = "product" /\ href.slug # "" /\ href.digits # NoSku
    THEN href.digits
    ELSE NoSku

EmptyTable == [x \in {} |-> 0]

\* len(seen_skus)
TableLen(seen) == Cardinality(DOMAIN seen)

\* IsNew without the membership test: a seen sku is taken as new again.
IsNew_reassign(sku, seen) == sku # NoSku

\* "if sku and sku not in seen_skus"
IsNew(sku, seen) == sku # NoSku /\ sku \notin DOMAIN seen

\* DictSet that stores the 0-based index len(seen_skus) as the position.
DictSet_zero_based(seen, sku, position) ==
    [x \in (DOMAIN seen) \cup {sku} |-> IF x = sku THEN position - 1 ELSE seen[x]]

\* "seen_skus[sku] = position" (a dict store: overwrites an existing key)
DictSet(seen, sku, position) ==
    [x \in (DOMAIN seen) \cup {sku} |-> IF x = sku THEN position ELSE seen[x]]

\* ParseHrefs without the early return: the loop runs to the end of the list
\* and reports the target afterwards.
RECURSIVE ParseHrefs_noreturn(_, _, _, _)
ParseHrefs_noreturn(hs, k, seen, target) ==
    IF k > Len(hs)
    THEN [seen |-> seen, found |-> target \in DOMAIN seen,
          position |-> IF target \in DOMAIN seen THEN seen[target] ELSE 0]
    ELSE LET sku == extract_sku(hs[k]) IN
         IF sku # NoSku /\ sku \notin DOMAIN seen
         THEN ParseHrefs_noreturn(hs, k + 1,
                  [x \in (DOMAIN seen) \cup {sku} |->
                      IF x = sku THEN Cardinality(DOMAIN seen) + 1 ELSE seen[x]],
                  target)
         ELSE ParseHrefs_noreturn(hs, k + 1, seen, target)

\* The for loop without the "if sku == target_sku" test.
RECURSIVE ParseHrefs_no_match(_, _, _, _)
ParseHrefs_no_match(hs, k, seen, target) ==
    IF k > Len(hs)
    THEN [seen |-> seen, found |-> FALSE, position |-> 0]
    ELSE LET sku == extract_sku(hs[k]) IN
         IF sku # NoSku /\ sku \notin DOMAIN seen
         THEN ParseHrefs_no_match(hs, k + 1,
                  [x \in (DOMAIN seen) \cup {sku} |->
                      IF x = sku THEN Cardinality(DOMAIN seen) + 1 ELSE seen[x]],
                  target)
         ELSE ParseHrefs_no_match(hs, k + 1, seen, target)

\* The for loop over hrefs of one round, from index k on.
RECURSIVE ParseHrefs(_, _, _, _)
ParseHrefs(hs, k, seen, target) ==
    IF k > Len(hs)
    THEN [seen |-> seen, found |-> FALSE, position |-> 0]
    ELSE LET sku == extract_sku(hs[k]) IN
         IF IsNew(sku, seen)
         THEN LET position == TableLen(seen) + 1
                  seen2 == DictSet(seen, sku, position)
              IN  IF sku = target
                  THEN [seen |-> seen2, found |-> TRUE, position |-> position]
                  ELSE ParseHrefs(hs, k + 1, seen2, target)
         ELSE ParseHrefs(hs, k + 1, seen, target)

\* The dict find_sku_position returns on success.
FoundResult(sku, position, seen) ==
    [type |-> "dict", sku |-> sku, position |-> position,
     total_items |-> TableLen(seen)]


\* ------------------------------------------------------------------ batch

\* A data row of the sheet (the rows below the header): column A holds an
\* article or is empty (NoSku), column C holds a product name or a query.
\* The k-th article row carries article k (modulo the ids): the ids are
\* interchangeable in HREFS, so which one a row looks for does not matter.
SheetRow(layout, n) ==
    IF layout[n] = "sku"
    THEN [article |->
            ((Cardinality({m \in 1..n : layout[m] = "sku"}) - 1)
                % Cardinality(Ids)) + 1,
          value_c |-> "name"]
    ELSE [article |-> NoSku, value_c |-> "query"]

Sheets ==
    {[n \in 1..Len(layout) |-> SheetRow(layout, n)] :
        layout \in UNION {[1..n -> {"sku", "query"}] : n \in 0..MaxRows}}

\* The loop of get_sku_with_queries from data row n on; data row n is sheet
\* row n + 1.  cur is current_sku, res is result.
RECURSIVE ReadRows(_, _, _, _)
ReadRows(rows, n, res, cur) ==
    LET flushed == IF cur # None THEN Append(res, cur) ELSE res IN
    IF n > Len(rows) THEN flushed
    ELSE IF rows[n].article # NoSku
    THEN ReadRows(rows, n + 1, flushed,
                  [sku |-> rows[n].article, queries |-> <<>>, row |-> n + 1])
    ELSE IF rows[n].value_c # "" /\ cur # None
    THEN ReadRows(rows, n + 1, res,
                  [cur EXCEPT !.queries =
                      Append(@, [query |-> rows[n].value_c, row |-> n + 1])])
    ELSE ReadRows(rows, n + 1, res, cur)

get_sku_with_queries(rows) == ReadRows(rows, 1, <<>>, None)

\* ------------------------------------------------------------------ state

VARIABLES
    sku_data,       \* main: the batch read at start
    pc,             \* main: position of the coroutine
    i, j,           \* main: index of the current item / query (1-based)
    attempt,        \* main: loop variable of "for attempt in range(max_retries)"
    result,         \* main: result of find_sku_position
    seen_skus,      \* find_sku_position: the rank table
    stale_count,    \* find_sku_position
    scroll_count,   \* find_sku_position
    hrefs,          \* find_sku_position: the hrefs of the current round
    polled,         \* wait_for_products: at least one poll was made
    outcome,        \* how the last scan ended (its last log line)
    queue,          \* asyncio.Queue: the items not yet dequeued
    unfinished,     \* asyncio.Queue: puts not yet matched by task_done
    w_pc,           \* sheets_writer: position of the coroutine
    w_item,         \* sheets_writer: the item being written
    w_raised,       \* sheets_writer: the executor call raised
    sink,           \* the worksheet.update_cell calls made, in order
    column_inserts, \* the insert_results_column calls made
    opens,          \* history: pages opened for the current query
    put_log,        \* history: every item put on the queue, in order
    write_calls     \* history: every job handed to run_in_executor, in order

scan_vars == <<seen_skus, stale_count, scroll_count, hrefs, polled, outcome>>
queue_vars == <<queue, unfinished, put_log>>
writer_vars == <<w_pc, w_item, w_raised, sink, write_calls>>
main_vars == <<sku_data, pc, i, j, attempt, result, column_inserts, opens>>
vars == <<main_vars, scan_vars, queue_vars, writer_vars>>

Init ==
    /\ sku_data \in {get_sku_with_queries(rows) : rows \in Sheets}
    /\ pc = "start"
    /\ i = 1
    /\ j = 1
    /\ attempt = 0
    /\ result = None
    /\ seen_skus = EmptyTable
    /\ stale_count = 0
    /\ scroll_count = 0
    /\ hrefs = <<>>
    /\ polled = FALSE
    /\ outcome = "none"
    /\ queue = <<>>
    /\ unfinished = 0
    /\ w_pc = "not_started"
    /\ w_item = None
    /\ w_raised = FALSE
    /\ sink = <<>>
    /\ column_inserts = 0
    /\ opens = 0
    /\ put_log = <<>>
    /\ write_calls = <<>>

\* The rows of all queries of the batch.
QueryRows ==
    UNION {{sku_data[a].queries[b].row : b \in 1..Len(sku_data[a].queries)} :
            a \in 1..Len(sku_data)}

\* The event loop runs both coroutines until main() returns or raises.
LoopRunning == pc \notin {"returned", "crashed", "done"}

\* ------------------------------------------------------------------ queue

\* A put on a queue of maxsize 1: it waits while the queue is full.
QueuePut_maxsize_one(item) ==
    /\ Len(queue) < 1
    /\ queue' = Append(queue, item)
    /\ unfinished' = unfinished + 1
    /\ put_log' = Append(put_log, item)

\* Queue.put on an unbounded queue: append, count the unfinished task.
QueuePut(item) ==
    /\ queue' = Append(queue, item)
    /\ unfinished' = unfinished + 1
    /\ put_log' = Append(put_log, item)


\* ------------------------------------------------- find_sku_position (scan)

\* The SKU the current scan looks for (main: sku = item["sku"]).
target_sku == sku_data[i].sku

\* ScanInit that keeps the table of the scan before.
ScanInit_carry ==
    /\ UNCHANGED seen_skus
    /\ stale_count' = 0
    /\ scroll_count' = 0
    /\ hrefs' = <<>>

\* "seen_skus = {}; stale_count = 0; scroll_count = 0" at the start of a scan.
ScanInit ==
    /\ seen_skus' = EmptyTable
    /\ stale_count' = 0
    /\ scroll_count' = 0
    /\ hrefs' = <<>>

\* StaleNext without the reset on growth.
StaleNext_noreset(stale, prev_count, current_count) ==
    IF current_count = prev_count THEN stale + 1 ELSE stale

\* "if current_count == prev_count: stale_count += 1 ... else: stale_count = 0"
StaleNext(stale, prev_count, current_count) ==
    IF current_count = prev_count THEN stale + 1 ELSE 0

\* StaleBreak that never breaks.
StaleBreak_never(stale, prev_count, current_count) == FALSE

\* "if stale_count >= stale_threshold: break", reached only without growth.
StaleBreak(stale, prev_count, current_count) ==
    current_count = prev_count /\ stale >= stale_threshold

\* A loop condition without the max_items ceiling.
LoopCond_no_ceiling(seen) == TRUE

\* "while len(seen_skus) < max_items"
LoopCond(seen) == TableLen(seen) < max_items

\* The code after the while loop: which of the two log lines precedes
\* "return None".
AfterLoop(seen) ==
    IF TableLen(seen) >= max_items THEN "Overflow" ELSE "NotFound"

\* No scan scrolls more often than this: at most max_items rounds grow the
\* table and fewer than stale_threshold stale rounds come before each.  The
\* guard of ScanScroll caps the counter one above it.
MaxScrolls == max_items * stale_threshold

\* wait_for_products: one poll of get_product_hrefs.  A non-empty list ends the
\* wait and the scan state is created; an empty list is followed by a sleep
\* and another poll.
WaitPoll ==
    /\ pc = "wait"
    /\ \E hs \in Snapshots :
        IF hs # <<>>
        THEN /\ ScanInit
             /\ polled' = TRUE
             /\ pc' = "round"
        ELSE /\ polled' = TRUE
             /\ UNCHANGED <<pc, seen_skus, stale_count, scroll_count, hrefs>>
    /\ UNCHANGED <<sku_data, i, j, attempt, result, column_inserts, opens,
                   outcome, queue_vars, writer_vars>>

\* wait_for_products: the timeout passed with no products; find_sku_position
\* returns None.  The clock is checked before each poll and the first check
\* passes, so at least one poll precedes the timeout.
WaitTimeout ==
    /\ pc = "wait"
    /\ polled
    /\ result' = None
    /\ outcome' = "NoProducts"
    /\ pc' = "attempt_end"
    /\ UNCHANGED <<sku_data, i, j, attempt, column_inserts, opens,
                   seen_skus, stale_count, scroll_count, hrefs, polled,
                   queue_vars, writer_vars>>

\* One pass of the while body up to the pacing sleep: snapshot, parse, stale
\* check.
ScanRound ==
    /\ pc = "round"
    /\ LoopCond(seen_skus)
    /\ \E hs \in Snapshots :
        LET prev_count == TableLen(seen_skus)
            r == ParseHrefs(hs, 1, seen_skus, target_sku)
            current_count == TableLen(r.seen)
            stale == StaleNext(stale_count, prev_count, current_count)
        IN  /\ hrefs' = hs
            /\ seen_skus' = r.seen
            /\ IF r.found
               THEN /\ result' = FoundResult(target_sku, r.position, r.seen)
                    /\ outcome' = "Found"
                    /\ pc' = "attempt_end"
                    /\ UNCHANGED stale_count
               ELSE /\ stale_count' = stale
                    /\ IF StaleBreak(stale, prev_count, current_count)
                       THEN /\ result' = None
                            /\ outcome' = AfterLoop(r.seen)
                            /\ pc' = "attempt_end"
                       ELSE /\ pc' = "scroll"
                            /\ UNCHANGED <<result, outcome>>
    /\ UNCHANGED <<sku_data, i, j, attempt, column_inserts, opens,
                   scroll_count, polled, queue_vars, writer_vars>>

\* The rest of the while body: count and issue the scroll.
ScanScroll ==
    /\ pc = "scroll"
    /\ scroll_count <= MaxScrolls
    /\ scroll_count' = scroll_count + 1
    /\ pc' = "round"
    /\ UNCHANGED <<sku_data, i, j, attempt, result, column_inserts, opens,
                   seen_skus, stale_count, hrefs, polled, outcome,
                   queue_vars, writer_vars>>

\* The while condition fails: the code after the loop runs.
ScanExit ==
    /\ pc = "round"
    /\ ~LoopCond(seen_skus)
    /\ result' = None
    /\ outcome' = AfterLoop(seen_skus)
    /\ pc' = "attempt_end"
    /\ UNCHANGED <<sku_data, i, j, attempt, column_inserts, opens,
                   seen_skus, stale_count, scroll_count, hrefs, polled,
                   queue_vars, writer_vars>>

\* tab.evaluate raises inside wait_for_products or find_sku_position.  Nothing
\* between there and the top of main() catches it.
EvalError ==
    /\ pc \in {"wait", "round", "scroll"}
    /\ pc' = "crashed"
    /\ UNCHANGED <<sku_data, i, j, attempt, result, column_inserts, opens,
                   scan_vars, queue_vars, writer_vars>>


\* ------------------------------------------------------------------- main

\* The nested for loops: the first (item, query) at or after (a, b); an item
\* index past the end of sku_data when there is none.
RECURSIVE NextQueryPos(_, _, _)
NextQueryPos(data, a, b) ==
    IF a > Len(data) THEN <<a, 1>>
    ELSE IF b > Len(data[a].queries) THEN NextQueryPos(data, a + 1, 1)
    ELSE <<a, b>>

\* 'result and result.get("needs_retry")'
NeedsRetry(res) ==
    /\ res # None
    /\ "needs_retry" \in DOMAIN res
    /\ res.needs_retry = TRUE

\* "is_found = position < 1000"
IsFound(position) == position < found_limit

\* The Write Job main() builds from a scan result.
WriteJob(res, row) ==
    IF res # None /\ "position" \in DOMAIN res
    THEN [type |-> "tuple", row |-> row,
          value |-> IF IsFound(res.position) THEN ToString(res.position)
                    ELSE "1000+",
          is_found |-> IsFound(res.position)]
    ELSE [type |-> "tuple", row |-> row, value |-> "1000+", is_found |-> FALSE]

\* open_page_with_blocking(browser, url): not part of the sources; it returns
\* a fresh tab on the search page or raises a navigation error.
open_page_with_blocking(ok) == IF ok THEN "tab" ELSE "raise"

\* MainStart without the "if not sku_data: return".
MainStart_no_empty_check ==
    /\ pc = "start"
    /\ column_inserts' = column_inserts + 1
    /\ w_pc' = "get"
    /\ pc' = "loop"
    /\ UNCHANGED <<sku_data, i, j, attempt, result, opens, scan_vars,
                   queue_vars, w_item, w_raised, sink, write_calls>>

\* get_sku_with_queries, the empty-batch return, insert_results_column, the
\* queue and the writer task, the browser.
MainStart ==
    /\ pc = "start"
    /\ IF sku_data = <<>>
       THEN /\ pc' = "returned"
            /\ UNCHANGED <<column_inserts, w_pc>>
       ELSE /\ column_inserts' = column_inserts + 1
            /\ w_pc' = "get"
            /\ pc' = "loop"
    /\ UNCHANGED <<sku_data, i, j, attempt, result, opens, scan_vars,
                   queue_vars, w_item, w_raised, sink, write_calls>>

\* The loop heads: take the next query, "max_retries = 3; result = None".
NextQuery ==
    /\ pc = "loop"
    /\ LET p == NextQueryPos(sku_data, i, j) IN
        /\ p[1] <= Len(sku_data)
        /\ i' = p[1]
        /\ j' = p[2]
    /\ attempt' = 0
    /\ result' = None
    /\ opens' = 0
    /\ pc' = "open"
    /\ UNCHANGED <<sku_data, column_inserts, scan_vars, queue_vars, writer_vars>>

\* One attempt opens the page and sleeps 3 s; find_sku_position starts with
\* wait_for_products.
OpenPage ==
    /\ pc = "open"
    /\ \E ok \in BOOLEAN :
        IF open_page_with_blocking(ok) = "tab"
        THEN /\ opens' = opens + 1
             /\ polled' = FALSE
             /\ pc' = "wait"
        ELSE /\ pc' = "crashed"
             /\ UNCHANGED <<opens, polled>>
    /\ UNCHANGED <<sku_data, i, j, attempt, result, column_inserts,
                   seen_skus, stale_count, scroll_count, hrefs, outcome,
                   queue_vars, writer_vars>>

\* After find_sku_position returned: retry on needs_retry while attempts
\* remain, else leave the attempt loop.
AttemptEnd ==
    /\ pc = "attempt_end"
    /\ IF NeedsRetry(result)
       THEN /\ result' = None
            /\ attempt' = attempt + 1
            /\ pc' = IF attempt + 1 < max_retries THEN "open" ELSE "put"
       ELSE /\ pc' = "put"
            /\ UNCHANGED <<result, attempt>>
    /\ UNCHANGED <<sku_data, i, j, column_inserts, opens, scan_vars,
                   queue_vars, writer_vars>>

\* Build the Write Job and put it on the queue.
PutResult ==
    /\ pc = "put"
    /\ QueuePut(WriteJob(result, sku_data[i].queries[j].row))
    /\ j' = j + 1
    /\ pc' = "loop"
    /\ UNCHANGED <<sku_data, i, attempt, result, column_inserts, opens,
                   scan_vars, writer_vars>>

\* After the loops: "await write_queue.put(None)".
PutPoison ==
    /\ pc = "loop"
    /\ NextQueryPos(sku_data, i, j)[1] > Len(sku_data)
    /\ QueuePut(None)
    /\ pc' = "join"
    /\ UNCHANGED <<sku_data, i, j, attempt, result, column_inserts, opens,
                   scan_vars, writer_vars>>

\* Join that does not wait.
Join_no_wait ==
    /\ pc = "join"
    /\ pc' = "joined"
    /\ UNCHANGED <<sku_data, i, j, attempt, result, column_inserts, opens,
                   scan_vars, queue_vars, writer_vars>>

\* "await write_queue.join()" returns when no task is unfinished.
Join ==
    /\ pc = "join"
    /\ unfinished = 0
    /\ pc' = "joined"
    /\ UNCHANGED <<sku_data, i, j, attempt, result, column_inserts, opens,
                   scan_vars, queue_vars, writer_vars>>

\* "await writer_task", then "Done!" and browser.stop().
AwaitWriter ==
    /\ pc = "joined"
    /\ w_pc = "done"
    /\ pc' = "done"
    /\ UNCHANGED <<sku_data, i, j, attempt, result, column_inserts, opens,
                   scan_vars, queue_vars, writer_vars>>

\* ---------------------------------------------------------- sheets_writer

\* "row, value, is_found = item" and the positional arguments handed to
\* run_in_executor after write_result.
WriterArgs(item) == <<item.row, item.value, item.is_found>>

\* write_result(row, value): a call with any other number of positional
\* arguments raises TypeError before the body runs; the body makes one
\* update_cell(row, 4, value) call, which may raise.
write_result(args, api_ok) ==
    IF Len(args) # 2
    THEN [raised |-> TRUE, calls |-> <<>>]
    ELSE [raised |-> ~api_ok,
          calls |-> <<[row |-> args[1], col |-> 4, value |-> args[2]]>>]

\* WriterGet whose marker branch breaks without task_done().
WriterGet_no_ack ==
    /\ LoopRunning
    /\ w_pc = "get"
    /\ queue # <<>>
    /\ queue' = Tail(queue)
    /\ IF Head(queue) = None
       THEN /\ w_pc' = "done"
            /\ UNCHANGED w_item
       ELSE /\ w_item' = Head(queue)
            /\ w_pc' = "call"
    /\ UNCHANGED <<main_vars, scan_vars, unfinished, put_log, w_raised, sink,
                   write_calls>>

\* "item = await queue.get()"; the poison pill is acknowledged and ends the
\* loop.
WriterGet ==
    /\ LoopRunning
    /\ w_pc = "get"
    /\ queue # <<>>
    /\ queue' = Tail(queue)
    /\ IF Head(queue) = None
       THEN /\ unfinished' = unfinished - 1
            /\ w_pc' = "done"
            /\ UNCHANGED w_item
       ELSE /\ w_item' = Head(queue)
            /\ w_pc' = "call"
            /\ UNCHANGED unfinished
    /\ UNCHANGED <<main_vars, scan_vars, put_log, w_raised, sink, write_calls>>

\* The executor thread runs write_result with the job's fields.
WriterCall ==
    /\ w_pc = "call"
    /\ \E api_ok \in BOOLEAN :
        LET r == write_result(WriterArgs(w_item), api_ok) IN
            /\ sink' = sink \o r.calls
            /\ w_raised' = r.raised
    /\ write_calls' = Append(write_calls, w_item)
    /\ w_pc' = "resume"
    /\ UNCHANGED <<main_vars, scan_vars, queue_vars, w_item>>

\* WriterResume without the except and finally clauses: the error ends the
\* consumer and the job is never acknowledged.
WriterResume_stop ==
    /\ LoopRunning
    /\ w_pc = "resume"
    /\ IF w_raised
       THEN /\ w_pc' = "done"
            /\ UNCHANGED unfinished
       ELSE /\ w_pc' = "get"
            /\ unfinished' = unfinished - 1
    /\ UNCHANGED <<main_vars, scan_vars, queue, put_log, w_item, w_raised,
                   sink, write_calls>>

\* WriterResume without the "finally: queue.task_done()".
WriterResume_no_ack ==
    /\ LoopRunning
    /\ w_pc = "resume"
    /\ w_pc' = "get"
    /\ UNCHANGED <<main_vars, scan_vars, queue_vars, w_item, w_raised, sink,
                   write_calls>>

\* The coroutine resumes: the debug or the error log line, then the finally
\* clause acknowledges the job.
WriterResume ==
    /\ LoopRunning
    /\ w_pc = "resume"
    /\ unfinished' = unfinished - 1
    /\ w_pc' = "get"
    /\ UNCHANGED <<main_vars, scan_vars, queue, put_log, w_item, w_raised,
                   sink, write_calls>>

\* ------------------------------------------------------------ specification

Next ==
    \/ MainStart
    \/ NextQuery
    \/ OpenPage
    \/ WaitPoll
    \/ WaitTimeout
    \/ ScanRound
    \/ ScanScroll
    \/ ScanExit
    \/ EvalError
    \/ AttemptEnd
    \/ PutResult
    \/ PutPoison
    \/ Join
    \/ AwaitWriter
    \/ WriterGet
    \/ WriterCall
    \/ WriterResume

Spec == Init /\ [][Next]_vars

\* The main coroutine is resumed whenever the call it awaits returns: a scan
\* that can take its next step takes it.
ScanFairness ==
    /\ WF_vars(ScanRound)
    /\ WF_vars(ScanScroll)
    /\ WF_vars(ScanExit)

\* The steps of main() and of the coroutines it awaits, none of them raising.
MainStep ==
    \/ MainStart \/ NextQuery \/ OpenPage
    \/ WaitPoll \/ WaitTimeout \/ ScanRound \/ ScanScroll \/ ScanExit
    \/ AttemptEnd \/ PutResult \/ PutPoison \/ Join \/ AwaitWriter

\* The steps of sheets_writer and of its executor thread.
WriterStep == WriterGet \/ WriterCall \/ WriterResume

\* The event loop runs every ready task and the executor finishes every call.
RunFairness == WF_vars(MainStep) /\ WF_vars(WriterStep)

\* The runs over a sheet with at most one query row: every scan of the
\* program, without the queue states that scans of later queries pass through.
OneQueryInit == Init /\ Cardinality(QueryRows) <= 1

ScanLiveSpec == OneQueryInit /\ [][Next]_vars /\ ScanFairness

RunLiveSpec == OneQueryInit /\ [][Next]_vars /\ RunFairness

\* ----------------------------------------------------------------- claims

\* The Write Jobs among the items put on the queue, in enqueue order.
EnqueuedJobs == SelectSeq(put_log, LAMBDA it : it # None)

\* The update_cell call that persists a Write Job.
CellOf(job) == [row |-> job.row, col |-> 4, value |-> job.value]

\* C1: once the terminal marker is enqueued and queue.join() has returned,
\* every Write Job enqueued before the marker has reached the sink (the cell
\* writer's update of column D) exactly once, in enqueue order.
C1_DrainGuarantee ==
    pc \in {"joined", "done"} =>
        sink = [k \in 1..Len(EnqueuedJobs) |-> CellOf(EnqueuedJobs[k])]


\* The scan is between two rounds: its table is live.
InScan == pc \in {"round", "scroll"}

\* C2: within one scan, an identifier that has a position keeps that position
\* in every later state of the scan, whatever the later snapshots re-report.
C2_PositionStable ==
    [][InScan =>
        \A x \in DOMAIN seen_skus :
            x \in DOMAIN seen_skus' /\ seen_skus'[x] = seen_skus[x]]_vars

\* C2 witness: a round that brought nothing new re-reported an identifier the
\* table already held.
C2_Witness ==
    /\ pc = "scroll"
    /\ stale_count = 1
    /\ \E k \in 1..Len(hrefs) : extract_sku(hrefs[k]) \in DOMAIN seen_skus

\* C3: the rank table never holds more than max_items identifiers.
C3_TableBound == TableLen(seen_skus) <= max_items

\* C4: the round that first assigns the target a position p ends the scan
\* with Found, position = p and total_items = p; nothing that follows the
\* target in that snapshot gets a position, and the scan takes no further
\* snapshot and issues no further scroll.
C4_EarlyTermination ==
    /\ [](InScan => target_sku \notin DOMAIN seen_skus)
    /\ [][(pc = "round" /\ target_sku \in DOMAIN seen_skus') =>
            /\ pc' = "attempt_end"
            /\ outcome' = "Found"
            /\ result' = [type |-> "dict", sku |-> target_sku,
                          position |-> seen_skus'[target_sku],
                          total_items |-> seen_skus'[target_sku]]
            /\ \A x \in DOMAIN seen_skus' : seen_skus'[x] <= seen_skus'[target_sku]
            /\ scroll_count' = scroll_count]_vars
    /\ [][(pc = "attempt_end" /\ outcome = "Found") =>
            UNCHANGED <<seen_skus, hrefs, scroll_count, stale_count>>]_vars

\* C4 witness: the scan returned Found and the snapshot holds, after the
\* target, an identifier that has no position.
C4_Witness ==
    /\ pc = "attempt_end"
    /\ outcome = "Found"
    /\ \E k \in 1..Len(hrefs) :
        /\ extract_sku(hrefs[k]) = target_sku
        /\ \E m \in (k + 1)..Len(hrefs) :
            /\ extract_sku(hrefs[m]) # NoSku
            /\ extract_sku(hrefs[m]) \notin DOMAIN seen_skus

\* A step that is one round of the scan (it took a snapshot).
RoundStep == pc = "round" /\ LoopCond(seen_skus) /\ pc' \in {"scroll", "attempt_end"}

\* C5: a round that leaves the table size unchanged adds one to the stale
\* counter, a round after which the scan goes on with a larger table resets it
\* to zero, and the scan reports end-of-feed in exactly the round that brings
\* the counter to stale_threshold: the counter is below the threshold while
\* the scan runs and equal to it when NotFound is reported.
C5_StaleTermination ==
    /\ [](InScan => stale_count < stale_threshold)
    /\ []((pc = "attempt_end" /\ outcome = "NotFound") =>
            stale_count = stale_threshold)
    /\ [][RoundStep =>
            LET grew == TableLen(seen_skus') > TableLen(seen_skus) IN
            /\ (grew /\ pc' = "scroll") => stale_count' = 0
            /\ ~grew => stale_count' = stale_count + 1
            /\ (pc' = "attempt_end" /\ outcome' = "NotFound")
                    <=> (~grew /\ stale_count' = stale_threshold)]_vars

\* C5 witness: end-of-feed with one identifier after three scrolls: a stale
\* round, a round that grew the table, then two stale rounds.
C5_Witness ==
    /\ pc = "attempt_end"
    /\ outcome = "NotFound"
    /\ TableLen(seen_skus) = 1
    /\ scroll_count = 3


\* The last item put on the queue.
LastPut == put_log[Len(put_log)]

\* C6 (for an error raised by tab.evaluate after the page was opened): the
\* run does not end before every query of the batch has its Write Job; the
\* query hit by the error gets a "1000+" job and the later ones are scanned.
C6_FailureIsolation ==
    (~LoopRunning /\ opens > 0) =>
        \A r \in QueryRows :
            \E k \in 1..Len(EnqueuedJobs) : EnqueuedJobs[k].row = r

\* C7: a write that raised is acknowledged and not repeated and the consumer
\* goes back to the queue; the jobs handed to the writer are the enqueued
\* jobs, each once and in order; the consumer has ended only when it has
\* dequeued the terminal marker, and by then every job was handed over.
C7_ConsumerSurvives ==
    /\ [][(w_pc = "resume" /\ w_raised /\ w_pc' # "resume") =>
            /\ w_pc' = "get"
            /\ unfinished' = unfinished - 1
            /\ write_calls' = write_calls]_vars
    /\ [](/\ Len(write_calls) <= Len(EnqueuedJobs)
          /\ write_calls = SubSeq(EnqueuedJobs, 1, Len(write_calls)))
    /\ [](w_pc = "done" =>
            /\ put_log # <<>>
            /\ LastPut = None
            /\ queue = <<>>
            /\ write_calls = EnqueuedJobs)

\* C7 witness: the consumer ended after two jobs although the writer call
\* raised.
C7_Witness ==
    /\ w_pc = "done"
    /\ Len(write_calls) >= 2
    /\ w_raised

\* The query just reported: its job is the last item put.
JustReported == pc = "loop" /\ put_log # <<>>

\* C8: the value of a query's Write Job is the decimal string of
\* the position whenever the scan ended Found, and "1000+" exactly when it
\* did not.
C8_ReportedValue ==
    JustReported =>
        /\ outcome = "Found" => LastPut.value = ToString(result.position)
        /\ LastPut.value = "1000+" <=> outcome # "Found"

ScanEnded ==
    pc = "attempt_end" /\ outcome \in {"Found", "NotFound", "Overflow"}

\* C10: when no snapshot or scroll call raises, a scan that has started its
\* rounds ends as Found, NotFound or Overflow; it never scrolls more than
\* max_items * stale_threshold times.
C10_ScanTermination ==
    /\ [](scroll_count <= MaxScrolls)
    /\ ([](pc # "crashed")) => ((pc = "round") ~> ScanEnded)

\* C10 witness: a scan ended after the largest number of scrolls.
C10_Witness ==
    /\ ScanEnded
    /\ scroll_count = MaxScrolls


\* The rows of the batch's queries in the order the nested loops visit them,
\* from item a on.
RECURSIVE QueryRowSeq(_)
QueryRowSeq(a) ==
    IF a > Len(sku_data) THEN <<>>
    ELSE [b \in 1..Len(sku_data[a].queries) |-> sku_data[a].queries[b].row]
            \o QueryRowSeq(a + 1)

\* The rows of the items put so far; 0 for the terminal marker.
PutRows == [k \in 1..Len(put_log) |->
                IF put_log[k] = None THEN 0 ELSE put_log[k].row]

\* C11: the items put are the Write Jobs of the queries in batch order, one
\* each, then one terminal marker and nothing after it; main() passes
\* queue.join() and reaches "Done!" only with the whole sequence put and every
\* item acknowledged; the marker is never handed to the writer call.
C11_ProducerProtocol ==
    /\ LET all == QueryRowSeq(1) \o <<0>> IN
        /\ Len(PutRows) <= Len(all)
        /\ PutRows = SubSeq(all, 1, Len(PutRows))
    /\ pc \in {"joined", "done"} =>
        /\ PutRows = QueryRowSeq(1) \o <<0>>
        /\ unfinished = 0
        /\ queue = <<>>
    /\ \A k \in 1..Len(write_calls) : write_calls[k] # None
    /\ \A k \in 1..Len(sink) : sink[k].row # 0

\* C11 witness: the run reached "Done!" after two Write Jobs and the marker.
C11_Witness ==
    /\ pc = "done"
    /\ Len(put_log) = 3
    /\ Len(write_calls) = 2

\* The positions the table holds.
Positions(seen) == {seen[x] : x \in DOMAIN seen}

\* The index of the first href of hs that carries sku.
FirstIndex(hs, sku) ==
    CHOOSE k \in 1..Len(hs) :
        /\ extract_sku(hs[k]) = sku
        /\ \A m \in 1..(k - 1) : extract_sku(hs[m]) # sku

\* C12: the positions in the table are exactly 1..n without gap or duplicate;
\* an identifier a round adds gets a position above all earlier ones, and of
\* two identifiers added in one round the one earlier in the snapshot gets
\* the smaller position.
C12_FirstSeenOrdering ==
    /\ [](/\ Positions(seen_skus) = 1..TableLen(seen_skus)
          /\ \A x, y \in DOMAIN seen_skus :
                seen_skus[x] = seen_skus[y] => x = y)
    /\ [][RoundStep =>
            \A x, y \in DOMAIN seen_skus' :
                /\ (x \in DOMAIN seen_skus /\ y \notin DOMAIN seen_skus)
                        => seen_skus'[x] < seen_skus'[y]
                /\ (/\ x \notin DOMAIN seen_skus
                    /\ y \notin DOMAIN seen_skus
                    /\ FirstIndex(hrefs', x) < FirstIndex(hrefs', y))
                        => seen_skus'[x] < seen_skus'[y]]_vars

\* C12 witness: a table of three identifiers, the last two added by one
\* snapshot in snapshot order after an earlier round added the first.
C12_Witness ==
    /\ scroll_count = 1
    /\ TableLen(seen_skus) = 3
    /\ Len(hrefs) = 2
    /\ extract_sku(hrefs[1]) # NoSku
    /\ extract_sku(hrefs[2]) # NoSku
    /\ seen_skus[extract_sku(hrefs[1])] = 2
    /\ seen_skus[extract_sku(hrefs[2])] = 3

\* C13: insert_results_column is called at most once, and before any Write
\* Job is handed to the writer; with an empty batch the run ends with no
\* column inserted, no writer task, no page opened, nothing put or written.
C13_StartupOrdering ==
    /\ column_inserts <= 1
    /\ (sku_data # <<>> /\ pc # "start") => column_inserts = 1
    /\ (write_calls # <<>> \/ sink # <<>> \/ w_pc # "not_started")
            => column_inserts = 1
    /\ sku_data = <<>> =>
        /\ pc \in {"start", "returned"}
        /\ column_inserts = 0
        /\ w_pc = "not_started"
        /\ opens = 0
        /\ put_log = <<>>
        /\ write_calls = <<>>
        /\ sink = <<>>

\* C13 witness: the run over an empty batch has returned.
C13_Witness ==
    /\ sku_data = <<>>
    /\ pc = "returned"


\* C14 (as stated): no advance (window.scrollBy) is issued in a state where
\* the table already holds max_items identifiers or more.
C14_NoAdvanceAtCeiling ==
    [][(pc = "scroll" /\ scroll_count' = scroll_count + 1)
            => TableLen(seen_skus) < max_items]_vars

\* C14 (amended): once the table holds max_items identifiers or more, the
\* scan takes no further snapshot: the only advance still issued is the one
\* that closes the round that reached the ceiling, and the loop test that
\* follows it ends the scan with the overflow outcome, the table untouched.
C14_OverflowAfterOneAdvance ==
    /\ [][(pc = "scroll" /\ TableLen(seen_skus) >= max_items /\ pc' # pc) =>
            /\ pc' \in {"round", "crashed"}
            /\ UNCHANGED <<seen_skus, hrefs, stale_count>>
            /\ pc' = "round" => scroll_count' = scroll_count + 1]_vars
    /\ [][(pc = "round" /\ TableLen(seen_skus) >= max_items /\ pc' # pc) =>
            /\ pc' \in {"attempt_end", "crashed"}
            /\ UNCHANGED <<seen_skus, hrefs, stale_count, scroll_count>>
            /\ pc' = "attempt_end" =>
                    (outcome' = "Overflow" /\ result' = None)]_vars
    /\ [](TableLen(seen_skus) >= max_items /\ pc \in {"round", "scroll"}
            => stale_count = 0)

\* C14 witness: a scan ended with the overflow outcome after advancing.
C14_Witness ==
    /\ pc = "attempt_end"
    /\ outcome = "Overflow"
    /\ scroll_count >= 1
    /\ TableLen(seen_skus) >= max_items

\* C15: a query whose initial wait failed is reported only after every one
\* of the max_retries attempts was made.
C15_FailedWaitRetried ==
    (pc = "put" /\ outcome = "NoProducts") => opens = max_retries


\* main() is working on a query: from the page open to the put of its job.
OnQuery == pc \in {"open", "wait", "round", "scroll", "attempt_end", "put"}

\* C16: while main() works on a query, the jobs of all queries before it in
\* batch order, and only those, have been put, so the one scan in flight is
\* that of the first query without a job; the put itself never waits, what-
\* ever the writer has or has not done.
C16_ScanWriteDecoupling ==
    /\ OnQuery =>
        /\ Len(put_log) < Len(QueryRowSeq(1))
        /\ QueryRowSeq(1)[Len(put_log) + 1] = sku_data[i].queries[j].row
        /\ \A k \in 1..Len(put_log) : put_log[k] # None
    /\ pc = "put" => ENABLED PutResult

\* C16 witness: the scan of the second query is in its rounds while the job
\* of the first is still in the queue and no write was attempted.
C16_Witness ==
    /\ pc = "round"
    /\ Len(put_log) = 1
    /\ Len(queue) = 1
    /\ write_calls = <<>>

\* The target occurs in snapshot hs.
TargetIn(hs) == \E k \in 1..Len(hs) : extract_sku(hs[k]) = target_sku

\* The first-seen rank of sku, which occurs in hs and not in seen: the size
\* of seen plus the new identifiers of hs up to its first occurrence.
FirstSeenRank(hs, seen, sku) ==
    TableLen(seen) +
    Cardinality({extract_sku(hs[m]) : m \in 1..FirstIndex(hs, sku)}
                    \ ({NoSku} \cup DOMAIN seen))

\* C17: a scan that is in its rounds, or ended NotFound or Overflow, does
\* not hold the target in its table; a round ends the scan with Found
\* exactly when its snapshot holds the target, and then the position
\* returned is the target's first-seen rank.
C17_NotFoundSoundness ==
    /\ [](InScan => target_sku \notin DOMAIN seen_skus)
    /\ []((pc \in {"attempt_end", "put"} /\ outcome \in {"NotFound", "Overflow"})
            => (target_sku \notin DOMAIN seen_skus /\ result = None))
    /\ [][RoundStep =>
            /\ TargetIn(hrefs') <=> (pc' = "attempt_end" /\ outcome' = "Found")
            /\ TargetIn(hrefs') =>
                /\ result' # None
                /\ result'.sku = target_sku
                /\ result'.position
                        = FirstSeenRank(hrefs', seen_skus, target_sku)
                /\ seen_skus'[target_sku] = result'.position]_vars

\* C17 witness: a scan ended NotFound with other identifiers in its table.
C17_Witness ==
    /\ pc = "attempt_end"
    /\ outcome = "NotFound"
    /\ TableLen(seen_skus) >= 1
    /\ target_sku \notin DOMAIN seen_skus


\* The run completed: "Done!" reached, the writer task finished, the queue
\* empty and every item acknowledged.
Completed ==
    /\ pc = "done"
    /\ w_pc = "done"
    /\ queue = <<>>
    /\ unfinished = 0

\* C18: with a non-empty batch and no call of main() raising, the run
\* eventually completes with the writer task finished and the queue empty;
\* main() does not stay in queue.join() and the writer does not stay in
\* queue.get().
C18_RunLiveness ==
    /\ (sku_data # <<>> /\ [](pc # "crashed")) => <>Completed
    /\ [](pc = "crashed") \/ ((pc = "join") ~> (pc # "join"))
    /\ [](pc = "done" => Completed)

\* C18 witness: a run of one query completed, its write call having raised.
C18_Witness ==
    /\ Completed
    /\ Len(put_log) = 2
    /\ w_raised

\* The item the writer holds between its get() and its task_done().
InHand == IF w_pc \in {"call", "resume"} THEN 1 ELSE 0

\* C19: the writer acknowledges each item it took exactly once, when it is
\* through with it (the marker at once, a Write Job after the call returned
\* or raised): the unfinished count is the queued items plus the one in hand,
\* never negative nor above the items put, and zero exactly when every item
\* put was processed.
C19_AckAccounting ==
    /\ [](/\ unfinished = Len(queue) + InHand
          /\ unfinished >= 0
          /\ unfinished <= Len(put_log)
          /\ unfinished = 0 <=> (queue = <<>> /\ InHand = 0))
    /\ [][unfinished' < unfinished =>
            /\ unfinished' = unfinished - 1
            /\ \/ w_pc = "resume" /\ w_pc' = "get"
               \/ w_pc = "get" /\ Head(queue) = None /\ w_pc' = "done"]_vars

\* C19 witness: one Write Job whose call raised and the marker were both
\* acknowledged.
C19_Witness ==
    /\ Len(put_log) = 2
    /\ Len(write_calls) = 1
    /\ w_raised
    /\ w_pc = "done"
    /\ unfinished = 0

====
